---- MODULE Spec2Model ----
(***************************************************************************)
(* The assumption query engine of sympy/assumptions/ask.py: the predicate  *)
(* registry Q, the knowledge compiler (compute_known_facts /               *)
(* single_fact_lookup), the tiered resolver ask and the SAT adapter        *)
(* ask_full_inference.                                                     *)
(***************************************************************************)
EXTENDS Integers, Sequences, FiniteSets, TLC

VARIABLES Q, global_assumptions, known_facts_dict, known_facts_cnf, call, result

vars == <<Q, global_assumptions, known_facts_dict, known_facts_cnf, call, result>>

----------------------------------------------------------------------------
(* Boolean expressions.  Every node is a record of the same shape; And/Or   *)
(* keep their arguments as a set (sympy's LatticeOp keeps a frozenset),     *)
(* Implies keeps its antecedent in ante and its consequent in args.         *)

Node(o, as) == [op |-> o, name |-> "", arg |-> "", args |-> as, ante |-> {}]

BTrue == Node("True", {})

BFalse == Node("False", {})

NoneVal == Node("None", {})

Pred(n) == [op |-> "Pred", name |-> n, arg |-> "", args |-> {}, ante |-> {}]

Applied(n, o) == [op |-> "Applied", name |-> n, arg |-> o, args |-> {}, ante |-> {}]

Only(S) == CHOOSE e \in S : TRUE

Flat(o, S) == UNION {IF a.op = o THEN a.args ELSE {a} : a \in S}

And(S) ==
    LET flat == Flat("And", S) \ {BTrue}
    IN  IF BFalse \in flat THEN BFalse
        ELSE IF flat = {} THEN BTrue
        ELSE IF Cardinality(flat) = 1 THEN Only(flat)
        ELSE Node("And", flat)

Or(S) ==
    LET flat == Flat("Or", S) \ {BFalse}
    IN  IF BTrue \in flat THEN BTrue
        ELSE IF flat = {} THEN BFalse
        ELSE IF Cardinality(flat) = 1 THEN Only(flat)
        ELSE Node("Or", flat)

Not(a) ==
    IF a.op = "True" THEN BFalse
    ELSE IF a.op = "False" THEN BTrue
    ELSE IF a.op = "Not" THEN Only(a.args)
    ELSE Node("Not", {a})

Implies(a, b) == [op |-> "Implies", name |-> "", arg |-> "", args |-> {b}, ante |-> {a}]

Equivalent(a, b) == Node("Equivalent", {a, b})

IsAtom(f) == f.op = "Pred"

----------------------------------------------------------------------------
(* to_cnf and satisfiable (sympy.logic): a CNF is a set of clauses, a       *)
(* clause a set of literals.                                                *)

Lit(n, s) == [name |-> n, sign |-> s]

Neg(l) == [name |-> l.name, sign |-> ~l.sign]

RECURSIVE Distribute(_)
Distribute(cnfs) ==
    IF cnfs = {} THEN {{}}
    ELSE LET c == Only(cnfs)
             rest == Distribute(cnfs \ {c})
         IN  {a \cup b : a \in c, b \in rest}

RECURSIVE Cnf(_, _)
Cnf(f, pos) ==
    CASE f.op = "Pred" -> {{Lit(f.name, pos)}}
      [] f.op = "True" -> IF pos THEN {} ELSE {{}}
      [] f.op = "False" -> IF pos THEN {{}} ELSE {}
      [] f.op = "Not" -> Cnf(Only(f.args), ~pos)
      [] f.op = "And" ->
            IF pos THEN UNION {Cnf(a, TRUE) : a \in f.args}
            ELSE Distribute({Cnf(a, FALSE) : a \in f.args})
      [] f.op = "Or" ->
            IF pos THEN Distribute({Cnf(a, TRUE) : a \in f.args})
            ELSE UNION {Cnf(a, FALSE) : a \in f.args}
      [] f.op = "Implies" ->
            LET a == Only(f.ante)
                b == Only(f.args)
            IN  IF pos THEN Distribute({Cnf(a, FALSE), Cnf(b, TRUE)})
                ELSE Cnf(a, TRUE) \cup Cnf(b, FALSE)
      [] f.op = "Equivalent" ->
            IF pos
            THEN UNION {Distribute({Cnf(a, FALSE), Cnf(b, TRUE)}) :
                            <<a, b>> \in {p \in f.args \X f.args : p[1] # p[2]}}
            ELSE Distribute({Cnf(a, TRUE) : a \in f.args})
                    \cup Distribute({Cnf(a, FALSE) : a \in f.args})

to_cnf(f) == Cnf(f, TRUE)

RECURSIVE dpll(_)
dpll(clauses) ==
    IF clauses = {} THEN TRUE
    ELSE IF {} \in clauses THEN FALSE
    ELSE LET units == UNION {c \in clauses : Cardinality(c) = 1}
         IN  IF units # {}
             THEN IF \E l \in units : Neg(l) \in units THEN FALSE
                  ELSE dpll({c \ {Neg(l) : l \in units} :
                                c \in {d \in clauses : d \cap units = {}}})
             ELSE LET l == Only(UNION clauses)
                  IN  \/ dpll({c \ {Neg(l)} : c \in {d \in clauses : l \notin d}})
                      \/ dpll({c \ {l} : c \in {d \in clauses : Neg(l) \notin d}})

(* satisfiable(And(known_facts_cnf, assumptions, proposition)) *)
satisfiable(cnf, assumptions, proposition) ==
    dpll(cnf \cup to_cnf(assumptions) \cup to_cnf(proposition))

----------------------------------------------------------------------------
(* ask_full_inference: "True", "False" or "None" *)

ask_full_inference_negation_first(proposition, assumptions, cnf) ==
    IF ~satisfiable(cnf, assumptions, Not(proposition)) THEN "True"
    ELSE IF ~satisfiable(cnf, assumptions, proposition) THEN "False"
    ELSE "None"

ask_full_inference(proposition, assumptions, cnf) ==
    IF ~satisfiable(cnf, assumptions, proposition) THEN "False"
    ELSE IF ~satisfiable(cnf, assumptions, Not(proposition)) THEN "True"
    ELSE "None"

single_fact_lookup_truthy(keys, cnf) ==
    [key \in keys |->
        {key} \cup {other_key \in keys \ {key} :
                        ask_full_inference(other_key, key, cnf) # "False"}]

single_fact_lookup(keys, cnf) ==
    [key \in keys |->
        {key} \cup {other_key \in keys \ {key} :
                        ask_full_inference(other_key, key, cnf) = "True"}]

----------------------------------------------------------------------------
(* The vocabulary and the axioms at the bottom of ask.py *)

QNames == {"antihermitian", "bounded", "commutative", "complex", "composite",
           "even", "extended_real", "hermitian", "imaginary", "infinitesimal",
           "infinity", "integer", "irrational", "rational", "negative",
           "nonzero", "positive", "prime", "real", "odd", "is_true",
           "symmetric", "invertible", "orthogonal", "positive_definite",
           "upper_triangular", "lower_triangular", "diagonal"}

HandlerNames == (QNames \ {"infinity"}) \cup {"algebraic"}

known_facts_keys == {Pred(n) : n \in QNames \cup HandlerNames}

known_facts ==
    LET q(n) == Pred(n)
    IN And({
        Implies(q("real"), q("complex")),
        Implies(q("real"), q("hermitian")),
        Equivalent(q("even"), And({q("integer"), Not(q("odd"))})),
        Equivalent(q("extended_real"), Or({q("real"), q("infinity")})),
        Equivalent(q("odd"), And({q("integer"), Not(q("even"))})),
        Equivalent(q("prime"), And({q("integer"), q("positive"), Not(q("composite"))})),
        Implies(q("integer"), q("rational")),
        Implies(q("imaginary"), And({q("complex"), Not(q("real"))})),
        Implies(q("imaginary"), q("antihermitian")),
        Implies(q("antihermitian"), Not(q("hermitian"))),
        Equivalent(q("negative"), And({q("nonzero"), Not(q("positive"))})),
        Equivalent(q("positive"), And({q("nonzero"), Not(q("negative"))})),
        Equivalent(q("rational"), And({q("real"), Not(q("irrational"))})),
        Equivalent(q("real"), Or({q("rational"), q("irrational")})),
        Implies(q("nonzero"), q("real")),
        Equivalent(q("nonzero"), Or({q("positive"), q("negative")})),
        Implies(q("orthogonal"), q("positive_definite")),
        Implies(q("positive_definite"), q("invertible")),
        Implies(q("diagonal"), q("upper_triangular")),
        Implies(q("diagonal"), q("lower_triangular"))})

generated_cnf == to_cnf(known_facts)

generated_dict == single_fact_lookup(known_facts_keys, generated_cnf)

----------------------------------------------------------------------------
(* Results of a call: "True", "False", "None" (no answer), or the name of   *)
(* the exception it raised.                                                 *)

RECURSIVE Has(_, _)
Has(expr, symbol) ==
    IF expr.op = "Applied" THEN expr.arg = symbol
    ELSE \E a \in expr.args : Has(a, symbol)

Rebuild(o, as) ==
    IF o = "And" THEN And(as)
    ELSE IF o = "Or" THEN Or(as)
    ELSE Not(Only(as))

RECURSIVE _extract_facts(_, _)
_extract_facts(expr, symbol) ==
    IF ~Has(expr, symbol) THEN NoneVal
    ELSE IF expr.op = "Applied" THEN Pred(expr.name)
    ELSE Rebuild(expr.op, {_extract_facts(a, symbol) : a \in expr.args} \ {NoneVal})

(* Predicate._eval_ask: the handlers of the key in registration order, the  *)
(* first definitive answer wins.                                            *)
Opinion(handler) == IF handler = "TrueHandler" THEN "True" ELSE "None"

RECURSIVE FirstOpinion(_)
FirstOpinion(handlers) ==
    IF handlers = <<>> THEN "None"
    ELSE IF Opinion(Head(handlers)) # "None" THEN Opinion(Head(handlers))
    ELSE FirstOpinion(Tail(handlers))

_eval_ask(key) == FirstOpinion(Q[key.name])

Combined_ignoring_context(assumptions, context) == And({assumptions})

(* ask, line 89 *)
Combined(assumptions, context) == And({assumptions, And(context)})

(* ask, line 103 *)
LocalFacts(assumptions, context, expr) ==
    _extract_facts(Combined(assumptions, context), expr)

(* ask, lines 114-124: the loop over local_facts.args, taken in the order   *)
(* the argument tuple happens to have.                                      *)
RECURSIVE ConjunctLoop(_, _)
ConjunctLoop(key, order) ==
    IF order = <<>> THEN "fallthrough"
    ELSE LET assum == Head(order)
         IN  IF IsAtom(assum)
             THEN IF key \in known_facts_dict[assum] THEN "True"
                  ELSE IF Not(key) \in known_facts_dict[assum] THEN "False"
                  ELSE ConjunctLoop(key, Tail(order))
             ELSE IF assum.op = "Not" /\ IsAtom(Only(assum.args))
             THEN IF assum \notin DOMAIN known_facts_dict THEN "KeyError"
                  ELSE IF key \in known_facts_dict[assum] THEN "False"
                  ELSE IF Not(key) \in known_facts_dict[assum] THEN "True"
                  ELSE ConjunctLoop(key, Tail(order))
             ELSE ConjunctLoop(key, Tail(order))

(* ask, lines 107-128: the closure-map tier; "fallthrough" when it is       *)
(* inconclusive.                                                            *)
ClosureLookup(key, local_facts, order) ==
    IF IsAtom(local_facts)
    THEN IF local_facts \notin DOMAIN known_facts_dict THEN "KeyError"
         ELSE IF key \in known_facts_dict[local_facts] THEN "True"
         ELSE IF Not(key) \in known_facts_dict[local_facts] THEN "False"
         ELSE "fallthrough"
    ELSE IF local_facts.op = "And" /\ \A k \in local_facts.args : k \in DOMAIN known_facts_dict
    THEN ConjunctLoop(key, order)
    ELSE IF local_facts.op = "Not" /\ IsAtom(Only(local_facts.args))
    THEN IF key \notin DOMAIN known_facts_dict THEN "KeyError"
         ELSE IF Only(local_facts.args) \in known_facts_dict[key] THEN "False"
         ELSE "fallthrough"
    ELSE "fallthrough"

ask(key, expr, assumptions, context, order) ==
    LET combined == Combined(assumptions, context)
        res == _eval_ask(key)
        local_facts == _extract_facts(combined, expr)
    IN  IF res # "None" THEN res
        ELSE IF combined = BTrue THEN "None"
        ELSE IF local_facts = NoneVal \/ local_facts = BTrue THEN "None"
        ELSE LET quick == ClosureLookup(key, local_facts, order)
             IN  IF quick # "fallthrough" THEN quick
                 ELSE ask_full_inference(key, local_facts, known_facts_cnf)

(* The orders in which the arguments of a conjunction can be visited *)
Orders(f) ==
    IF f.op # "And" THEN {<<>>}
    ELSE {s \in [1..Cardinality(f.args) -> f.args] :
            \A i, j \in DOMAIN s : i # j => s[i] # s[j]}

----------------------------------------------------------------------------
(* Calls *)

Call(o, n, e, a, h) ==
    [op |-> o, name |-> n, expr |-> e, assumptions |-> a, handler |-> h, keys |-> {}]

NoCall == Call("none", "", "", BTrue, "")

InitialQ == [n \in QNames \cup HandlerNames |->
                IF n \in HandlerNames THEN <<"builtin">> ELSE <<>>]

Loaded ==
    /\ Q = InitialQ
    /\ global_assumptions = {}
    /\ known_facts_dict = generated_dict
    /\ known_facts_cnf = generated_cnf

----------------------------------------------------------------------------
(* Queries: ask applied to inputs drawn from a bounded family *)

MaxKeys == 5

MaxArgs == 2

KeyPool == <<"even", "odd", "integer", "rational", "real", "irrational", "prime",
             "positive", "composite", "nonzero">>

InKeys == {KeyPool[i] : i \in 1..MaxKeys}

Objs == {"x", "y"}

RECURSIVE SetsUpTo(_, _)
SetsUpTo(L, n) ==
    IF n = 0 THEN {{}}
    ELSE LET prev == SetsUpTo(L, n - 1)
         IN  prev \cup {s \cup {l} : s \in prev, l \in L}

AppliedLiterals ==
    LET atoms == {Applied(k, o) : k \in InKeys, o \in Objs}
    IN  atoms \cup {Not(a) : a \in atoms}

InAssumptions ==
    LET groups == SetsUpTo(AppliedLiterals, MaxArgs) \ {{}}
        flat == {And(g) : g \in groups} \cup {Or(g) : g \in groups}
    IN  flat \cup {Not(f) : f \in flat} \cup {BTrue}

InitAsk ==
    /\ Loaded
    /\ call \in {Call("ask", k, o, a, "") : k \in InKeys, o \in Objs, a \in InAssumptions}
    /\ result = "pending"

AskStep ==
    /\ call.op = "ask"
    /\ result = "pending"
    /\ \E order \in Orders(LocalFacts(call.assumptions, global_assumptions, call.expr)) :
          result' = ask(Pred(call.name), call.expr, call.assumptions, global_assumptions, order)
    /\ UNCHANGED <<Q, global_assumptions, known_facts_dict, known_facts_cnf, call>>

NextAsk == AskStep

SpecAsk == InitAsk /\ [][NextAsk]_vars

----------------------------------------------------------------------------
(* Truth-table semantics, independent of to_cnf and dpll.  A world gives    *)
(* every object the set of predicate names true of it; a bare predicate     *)
(* key is read at the object "".  No axiom of known_facts relates a name of *)
(* NumberNames to a name of MatrixNames, and the other names are in no      *)
(* axiom, so the models of known_facts are the unions of one model of each  *)
(* group and any set of the other names.                                    *)

RECURSIVE Eval(_, _)
Eval(f, w) ==
    CASE f.op \in {"Pred", "Applied"} -> f.name \in w[f.arg]
      [] f.op = "True" -> TRUE
      [] f.op = "False" -> FALSE
      [] f.op = "Not" -> ~Eval(Only(f.args), w)
      [] f.op = "And" -> \A a \in f.args : Eval(a, w)
      [] f.op = "Or" -> \E a \in f.args : Eval(a, w)
      [] f.op = "Implies" -> Eval(Only(f.ante), w) => Eval(Only(f.args), w)
      [] f.op = "Equivalent" -> \A a, b \in f.args : Eval(a, w) <=> Eval(b, w)

RECURSIVE NamesIn(_)
NamesIn(f) ==
    IF f.op \in {"Pred", "Applied"} THEN {f.name}
    ELSE UNION {NamesIn(a) : a \in f.args \cup f.ante}

RECURSIVE ObjsIn(_)
ObjsIn(f) ==
    IF f.op \in {"Pred", "Applied"} THEN {f.arg}
    ELSE UNION {ObjsIn(a) : a \in f.args \cup f.ante}

NumberNames == {"antihermitian", "complex", "composite", "even", "extended_real",
                "hermitian", "imaginary", "infinity", "integer", "irrational",
                "rational", "negative", "nonzero", "positive", "prime", "real", "odd"}

MatrixNames == {"invertible", "orthogonal", "positive_definite",
                "upper_triangular", "lower_triangular", "diagonal"}

ModelsOver(names) ==
    LET holds(m) == Eval(known_facts, [o \in {""} |-> m])
    IN  UNION {IF holds(m) THEN {m} ELSE {} : m \in SUBSET names}

NumberModels == ModelsOver(NumberNames)

MatrixModels == ModelsOver(MatrixNames)

(* The models of known_facts, restricted to the names A *)
ModelsOn(A) ==
    {a \cup b \cup c : a \in {n \cap A : n \in NumberModels},
                       b \in {t \cap A : t \in MatrixModels},
                       c \in SUBSET (A \ (NumberNames \cup MatrixNames))}

Worlds(f, g) == [ObjsIn(f) \cup ObjsIn(g) -> ModelsOn(NamesIn(f) \cup NamesIn(g))]

(* f together with the axioms (about every object) entails g *)
Entails(f, g) == \A w \in Worlds(f, g) : Eval(f, w) => Eval(g, w)

Consistent(f) == \E w \in Worlds(f, f) : Eval(f, w)

----------------------------------------------------------------------------
(* ask_full_inference applied to inputs drawn from a bounded family *)

FactLiterals ==
    LET atoms == {Pred(k) : k \in InKeys}
    IN  atoms \cup {Not(a) : a \in atoms}

InFacts ==
    LET groups == SetsUpTo(FactLiterals, MaxArgs) \ {{}}
        flat == {And(g) : g \in groups} \cup {Or(g) : g \in groups}
    IN  flat \cup {Not(f) : f \in flat}

InitInfer ==
    /\ Loaded
    /\ call \in {Call("ask_full_inference", k, "", a, "") : k \in InKeys, a \in InFacts}
    /\ result = "pending"

InferStep ==
    /\ call.op = "ask_full_inference"
    /\ result = "pending"
    /\ result' = ask_full_inference(Pred(call.name), call.assumptions, known_facts_cnf)
    /\ UNCHANGED <<Q, global_assumptions, known_facts_dict, known_facts_cnf, call>>

NextInfer == InferStep

SpecInfer == InitInfer /\ [][NextInfer]_vars

----------------------------------------------------------------------------
(* Claims about ask and ask_full_inference *)

AskDone == call.op = "ask" /\ result # "pending"

AskFacts == LocalFacts(call.assumptions, global_assumptions, call.expr)

(* C1: soundness of ask.  With handlers giving no opinion, an answer True   *)
(* is entailed by the combined assumptions and the axioms, and an answer    *)
(* False means they entail the negation of key(target).                     *)
C1_AskSound ==
    (AskDone /\ _eval_ask(Pred(call.name)) = "None") =>
        LET goal == Applied(call.name, call.expr)
            combined == Combined(call.assumptions, global_assumptions)
        IN  /\ result = "True" => Entails(combined, goal)
            /\ result = "False" => Entails(combined, Not(goal))

(* C2: tier agreement.  Whenever the closure-map tier of ask gives a        *)
(* definitive True or False, ask_full_inference on the same key and         *)
(* extracted facts returns the same value.                                  *)
C2_TierAgreement ==
    (AskDone /\ _eval_ask(Pred(call.name)) = "None" /\ AskFacts \notin {NoneVal, BTrue}) =>
        \A order \in Orders(AskFacts) :
            LET quick == ClosureLookup(Pred(call.name), AskFacts, order)
            IN  (quick \in {"True", "False"} /\ result = quick) =>
                    ask_full_inference(Pred(call.name), AskFacts, known_facts_cnf) = quick

(* C10: a conjunction with a negated conjunct Not(a) is settled by the      *)
(* closure map with the roles swapped: when no other conjunct gives a hit   *)
(* and key is in closureMap[a], ask returns False, and when Not(key) is in  *)
(* closureMap[a] it returns True.                                           *)
NoHit(key, c) ==
    LET a == IF c.op = "Not" THEN Only(c.args) ELSE c
    IN  a \in DOMAIN known_facts_dict
            /\ key \notin known_facts_dict[a] /\ Not(key) \notin known_facts_dict[a]

C10_NegatedConjunctLookup ==
    (AskDone /\ _eval_ask(Pred(call.name)) = "None" /\ AskFacts.op = "And") =>
        \A c \in AskFacts.args :
            (/\ c.op = "Not" /\ IsAtom(Only(c.args))
             /\ Only(c.args) \in DOMAIN known_facts_dict
             /\ \A d \in AskFacts.args \ {c} : NoHit(Pred(call.name), d)) =>
                /\ Pred(call.name) \in known_facts_dict[Only(c.args)] => result = "False"
                /\ Not(Pred(call.name)) \in known_facts_dict[Only(c.args)] => result = "True"

InferDone == call.op = "ask_full_inference" /\ result # "pending"

(* C3 as stated: ask_full_inference returns True exactly when the           *)
(* proposition is entailed by the assumptions and the axioms.               *)
C3_TrueIffEntailed ==
    InferDone => (result = "True" <=> Entails(call.assumptions, Pred(call.name)))

(* C3 amended: ask_full_inference returns True exactly when the             *)
(* proposition is entailed by the assumptions and the axioms and the        *)
(* assumptions are consistent with the axioms; on assumptions inconsistent  *)
(* with the axioms it returns False.                                        *)
C3_TrueIffEntailedAndConsistent ==
    InferDone =>
        /\ result = "True" <=>
                (Entails(call.assumptions, Pred(call.name)) /\ Consistent(call.assumptions))
        /\ ~Consistent(call.assumptions) => result = "False"

C3_Witness ==
    /\ InferDone
    /\ result = "True"
    /\ call.assumptions.op = "And"
    /\ Pred(call.name) \notin call.assumptions.args

----------------------------------------------------------------------------
(* The registry: register_handler and remove_handler on the class Q *)

MaxNames == 2

MaxHandlers == 2

NamePool == <<"mersenne", "even", "fermat", "odd", "perfect">>

RegNames == {NamePool[i] : i \in 1..MaxNames}

HandlerPool == {"NoOpinionHandler", "TrueHandler"}

Range(s) == {s[i] : i \in DOMAIN s}

(* Predicate.add_handler *)
add_handler(handlers, handler) == Append(handlers, handler)

(* Predicate.remove_handler: list.remove drops the first occurrence *)
remove_first(handlers, handler) ==
    LET i == CHOOSE j \in DOMAIN handlers :
                /\ handlers[j] = handler
                /\ \A k \in 1..(j - 1) : handlers[k] # handler
    IN  SubSeq(handlers, 1, i - 1) \o SubSeq(handlers, i + 1, Len(handlers))

register_handler_replacing(q, key, handler) ==
    [n \in DOMAIN q \cup {key} |-> IF n = key THEN <<handler>> ELSE q[n]]

(* register_handler: the registry after the call *)
register_handler(q, key, handler) ==
    IF key \in DOMAIN q
    THEN [q EXCEPT ![key] = add_handler(@, handler)]
    ELSE [n \in DOMAIN q \cup {key} |-> IF n = key THEN <<handler>> ELSE q[n]]

(* remove_handler: the registry after the call and what the call raised *)
remove_handler(q, key, handler) ==
    IF key \notin DOMAIN q THEN [q |-> q, raised |-> "AttributeError"]
    ELSE IF handler \notin Range(q[key]) THEN [q |-> q, raised |-> "ValueError"]
    ELSE [q |-> [q EXCEPT ![key] = remove_first(@, handler)], raised |-> "None"]

RegisterHandler(key, handler) ==
    /\ key \in DOMAIN Q => Len(Q[key]) < MaxHandlers
    /\ Q' = register_handler(Q, key, handler)
    /\ call' = Call("register_handler", key, "", BTrue, handler)
    /\ result' = "None"
    /\ UNCHANGED <<global_assumptions, known_facts_dict, known_facts_cnf>>

RemoveHandler(key, handler) ==
    /\ Q' = remove_handler(Q, key, handler).q
    /\ call' = Call("remove_handler", key, "", BTrue, handler)
    /\ result' = remove_handler(Q, key, handler).raised
    /\ UNCHANGED <<global_assumptions, known_facts_dict, known_facts_cnf>>

(* ask(key(expr), assumptions) in the current state *)
Ask(key, expr, assumptions) ==
    /\ {key} \cup NamesIn(assumptions) \subseteq DOMAIN Q
    /\ \E order \in Orders(LocalFacts(assumptions, global_assumptions, expr)) :
          result' = ask(Pred(key), expr, assumptions, global_assumptions, order)
    /\ call' = Call("ask", key, expr, assumptions, "")
    /\ UNCHANGED <<Q, global_assumptions, known_facts_dict, known_facts_cnf>>

RegAssumptions ==
    LET atoms == {Applied(k, "x") : k \in RegNames}
    IN  atoms \cup {Not(a) : a \in atoms} \cup {And({a, b}) : a, b \in atoms}

RegisterStep == \E key \in RegNames, handler \in HandlerPool : RegisterHandler(key, handler)

RemoveStep == \E key \in RegNames, handler \in HandlerPool \cup {"builtin"} : RemoveHandler(key, handler)

AskRegistryStep == \E key \in RegNames, a \in RegAssumptions : Ask(key, "x", a)

----------------------------------------------------------------------------
(* The global assumption set (AssumptionsContext): add, remove, clear *)

MaxGlobals == 4

GlobalPool == <<Applied("integer", "x"), Applied("even", "y"), Not(Applied("rational", "x")),
                Applied("real", "x"), Applied("odd", "x"), Not(Applied("even", "x"))>>

GlobalFacts == {GlobalPool[i] : i \in 1..MaxGlobals}

GlobalAdd(fact) ==
    /\ global_assumptions' = global_assumptions \cup {fact}
    /\ call' = Call("global_assumptions.add", "", "", fact, "")
    /\ result' = "None"
    /\ UNCHANGED <<Q, known_facts_dict, known_facts_cnf>>

GlobalRemove(fact) ==
    /\ global_assumptions' = global_assumptions \ {fact}
    /\ call' = Call("global_assumptions.remove", "", "", fact, "")
    /\ result' = IF fact \in global_assumptions THEN "None" ELSE "KeyError"
    /\ UNCHANGED <<Q, known_facts_dict, known_facts_cnf>>

GlobalClear ==
    /\ global_assumptions' = {}
    /\ call' = Call("global_assumptions.clear", "", "", BTrue, "")
    /\ result' = "None"
    /\ UNCHANGED <<Q, known_facts_dict, known_facts_cnf>>

GlobalAddStep == \E fact \in GlobalFacts : GlobalAdd(fact)

GlobalRemoveStep == \E fact \in GlobalFacts : GlobalRemove(fact)

AskGlobalStep == \E key \in InKeys, expr \in Objs : Ask(key, expr, BTrue)

----------------------------------------------------------------------------
(* The knowledge compiler applied to the repository's axioms and to small   *)
(* axiom sets, some of them contradictory.                                  *)

MaxCompileKeys == 3

MaxAxioms == 2

CompileKeys == {Pred(KeyPool[i]) : i \in 1..MaxCompileKeys}

AxiomPool ==
    LET pairs == {p \in CompileKeys \X CompileKeys : p[1] # p[2]}
    IN  CompileKeys \cup {Not(a) : a \in CompileKeys}
            \cup {Implies(p[1], p[2]) : p \in pairs}
            \cup {Implies(p[1], Not(p[2])) : p \in pairs}

AxiomSets == {And(g) : g \in SetsUpTo(AxiomPool, MaxAxioms) \ {{}}}

CompileCall(axioms, keys) ==
    [Call("compute_known_facts", "", "", axioms, "") EXCEPT !.keys = keys]

(* compute_known_facts: the two artifacts written to ask_generated, and     *)
(* what the call raised.                                                    *)
compute_known_facts(axioms, keys) ==
    LET cnf == to_cnf(axioms)
    IN  [cnf |-> cnf, mapping |-> single_fact_lookup(keys, cnf), raised |-> "None"]

InitCompile ==
    /\ Q = InitialQ
    /\ global_assumptions = {}
    /\ known_facts_dict = [k \in {} |-> {}]
    /\ known_facts_cnf = {}
    /\ call \in {CompileCall(known_facts, known_facts_keys)}
                    \cup {CompileCall(ax, CompileKeys) : ax \in AxiomSets}
    /\ result = "pending"

CompileStep ==
    /\ call.op = "compute_known_facts"
    /\ result = "pending"
    /\ LET out == compute_known_facts(call.assumptions, call.keys)
       IN  /\ known_facts_cnf' = out.cnf
           /\ known_facts_dict' = out.mapping
           /\ result' = out.raised
    /\ UNCHANGED <<Q, global_assumptions, call>>

NextCompile == CompileStep

SpecCompile == InitCompile /\ [][NextCompile]_vars

CompileDone == call.op = "compute_known_facts" /\ result # "pending"

RepositoryCompiled == CompileDone /\ call.assumptions = known_facts /\ call.keys = known_facts_keys

TruthTableSatisfiable(f) == \E m \in SUBSET NamesIn(f) : Eval(f, [o \in {""} |-> m])

(* C4: closure-map correctness for the repository's known_facts: every b in *)
(* closureMap[a], a itself included, is answered True by                    *)
(* ask_full_inference(b, a, cnf), and every b with Not(b) in closureMap[a]  *)
(* is answered False.                                                       *)
C4_ClosureMapCorrect ==
    RepositoryCompiled =>
        \A a \in call.keys :
            /\ \A b \in known_facts_dict[a] \cap call.keys :
                    ask_full_inference(b, a, known_facts_cnf) = "True"
            /\ \A b \in call.keys :
                    Not(b) \in known_facts_dict[a] =>
                        ask_full_inference(b, a, known_facts_cnf) = "False"
            /\ known_facts_dict[a] \subseteq call.keys \cup {Not(b) : b \in call.keys}

C4_Witness ==
    /\ RepositoryCompiled
    /\ Pred("rational") \in known_facts_dict[Pred("integer")]
    /\ Pred("integer") \in known_facts_dict[Pred("prime")]
    /\ Pred("integer") \notin known_facts_dict[Pred("rational")]

(* C5: compiling an axiom set that is unsatisfiable as a whole raises       *)
(* ContradictoryAxioms and produces no closure map.                         *)
C5_ContradictoryAxiomsRaise ==
    (CompileDone /\ ~TruthTableSatisfiable(call.assumptions)) =>
        /\ result = "ContradictoryAxioms"
        /\ DOMAIN known_facts_dict = {}

(* C9: the closure map of the repository's known_facts holds Not(k2) in     *)
(* closureMap[k] for all keys k, k2 such that k alone entails the negation  *)
(* of k2 (ask_full_inference(k2, k, cnf) is False).                         *)
C9_NegatedEntailmentsRecorded ==
    RepositoryCompiled =>
        \A k \in call.keys, k2 \in call.keys :
            ask_full_inference(k2, k, known_facts_cnf) = "False" =>
                Not(k2) \in known_facts_dict[k]

----------------------------------------------------------------------------
(* Claims about the registry and the global assumption set *)

Without(s, i) == SubSeq(s, 1, i - 1) \o SubSeq(s, i + 1, Len(s))

(* C6: once register_handler has created a predicate with no entry in the   *)
(* compiled closure map, an ask in which it is the query key (the extracted *)
(* facts being a negated single key) or the single extracted fact does not  *)
(* raise: it returns what ask_full_inference returns.                       *)
C6_NewPredicateFallsThrough ==
    (AskDone /\ _eval_ask(Pred(call.name)) = "None") =>
        LET key == Pred(call.name)
            facts == AskFacts
        IN  (\/ /\ key \notin DOMAIN known_facts_dict
                /\ facts.op = "Not"
                /\ IsAtom(Only(facts.args))
             \/ /\ IsAtom(facts)
                /\ facts \notin DOMAIN known_facts_dict) =>
                result = ask_full_inference(key, facts, known_facts_cnf)

(* One step of the registry, read off the call it records *)
C7_Step ==
    LET n == call'.name
        h == call'.handler
    IN  /\ call'.op = "register_handler" =>
            /\ DOMAIN Q' = DOMAIN Q \cup {n}
            /\ \A m \in DOMAIN Q \ {n} : Q'[m] = Q[m]
            /\ n \notin DOMAIN Q => Q'[n] = <<h>>
            /\ n \in DOMAIN Q =>
                    /\ Len(Q'[n]) = Len(Q[n]) + 1
                    /\ SubSeq(Q'[n], 1, Len(Q[n])) = Q[n]
                    /\ Q'[n][Len(Q'[n])] = h
        /\ call'.op = "remove_handler" =>
            /\ DOMAIN Q' = DOMAIN Q
            /\ \A m \in DOMAIN Q \ {n} : Q'[m] = Q[m]
            /\ (n \in DOMAIN Q /\ h \in Range(Q[n])) =>
                    /\ result' = "None"
                    /\ \E i \in DOMAIN Q[n] : Q[n][i] = h /\ Q'[n] = Without(Q[n], i)
            /\ (n \notin DOMAIN Q \/ h \notin Range(Q[n])) =>
                    /\ result' \in {"AttributeError", "ValueError"}
                    /\ Q' = Q

(* C7: the registry state machine.  register_handler on an unknown name     *)
(* creates the predicate with exactly the one handler, on a known name it   *)
(* appends the handler and keeps the earlier ones in order;                 *)
(* remove_handler removes exactly one occurrence of the handler, and on a   *)
(* name never registered or a handler not in the list it raises, creates no *)
(* predicate and changes no handler list.                                   *)
C7_RegistryStateMachine == [][C7_Step]_vars

C7_Witness ==
    /\ call.op = "remove_handler"
    /\ result = "None"
    /\ call.name \notin DOMAIN InitialQ
    /\ call.name \in DOMAIN Q
    /\ Q[call.name] = <<call.handler>>

(* C8: ask reads the global assumption set as it is when called.  With no   *)
(* local assumptions it answers as ask with the conjunction of the facts    *)
(* now in the set and an empty context; with integer(x) in a set of applied *)
(* predicates ask(rational(x)) is True through the closure map, and with    *)
(* the set empty it is None.                                                *)
C8_AskReadsGlobals ==
    (AskDone /\ call.assumptions = BTrue /\ _eval_ask(Pred(call.name)) = "None") =>
        LET key == Pred(call.name)
            now == And(global_assumptions)
            facts == LocalFacts(now, {}, call.expr)
        IN  /\ result \in {ask(key, call.expr, now, {}, o) : o \in Orders(facts)}
            /\ (/\ Applied("integer", "x") \in global_assumptions
                /\ \A f \in global_assumptions : f.op = "Applied"
                /\ call.name = "rational"
                /\ call.expr = "x") =>
                    /\ result = "True"
                    /\ \A o \in Orders(facts) : ClosureLookup(key, facts, o) = "True"
            /\ global_assumptions = {} => result = "None"

C8_Witness ==
    /\ AskDone
    /\ call.assumptions = BTrue
    /\ call.name = "rational"
    /\ call.expr = "x"
    /\ Applied("integer", "x") \in global_assumptions
    /\ Cardinality(global_assumptions) > 1
    /\ result = "True"

----------------------------------------------------------------------------
Init ==
    /\ Loaded
    /\ call = NoCall
    /\ result = "none"

NextRegistry == RegisterStep \/ RemoveStep

SpecRegistry == Init /\ [][NextRegistry]_vars

NextRegistryAsk == RegisterStep \/ RemoveStep \/ AskRegistryStep

SpecRegistryAsk == Init /\ [][NextRegistryAsk]_vars

NextGlobal == GlobalAddStep \/ GlobalRemoveStep \/ GlobalClear \/ AskGlobalStep

SpecGlobal == Init /\ [][NextGlobal]_vars

Next ==
    \/ RegisterStep
    \/ RemoveStep
    \/ GlobalAddStep
    \/ GlobalRemoveStep
    \/ GlobalClear
    \/ AskRegistryStep
    \/ AskGlobalStep

Spec == Init /\ [][Next]_vars
====
